---- MODULE Spec2Model ----
(***************************************************************************)
(* django-mailviews: the preview registry (PreviewSite), the per-preview   *)
(* views (Preview.detail_view, Preview.send_test_view) and autodiscover,   *)
(* as a state machine.  A step is one call of register, of a view, or of   *)
(* autodiscover; `request`, `response` and `calls` describe the last call: *)
(* its arguments, what it returned or raised, and the calls it made on the *)
(* message view, the message and the Preview, in order.                    *)
(***************************************************************************)
EXTENDS Integers, Sequences, FiniteSets, TLC

VARIABLES previews, created, request, response, calls, apps, imported, discovery

vars == <<previews, created, request, response, calls, apps, imported, discovery>>

\* Most register calls in one behaviour.
MaxRegs == 3
\* Most installed applications autodiscover walks over.
MaxApps == 3

None == "None"

URL_NAMESPACE == "mailviews"

template_name == "mailviews/previews/detail.html"

list_template == "mailviews/previews/list.html"

\* ------------------------------------------------------------ dictionaries

EmptyDict == [k \in {} |-> None]

SetItem(d, k, v) == [x \in (DOMAIN d) \cup {k} |-> IF x = k THEN v ELSE d[x]]

DelItem(d, k) == [x \in (DOMAIN d) \ {k} |-> d[x]]

\* dict.get(k): the value, or None on a missing key.
Get(d, k) == IF k \in DOMAIN d THEN d[k] ELSE None

\* dict.setdefault(k, default), the value it returns.
SetDefault(d, k, default) == IF k \in DOMAIN d THEN d[k] ELSE default

Range(s) == {s[i] : i \in DOMAIN s}

\* Every order in which a dict may hand out the elements of S.
Orders(S) == {s \in [1..Cardinality(S) -> S] : Range(s) = S}

\* ------------------------------------------------------------------ inputs

\* message_view.__module__ of the preview classes, in ascending string order.
ModuleOrder == <<"app.emails.views", "shop.emails.views">>

ModuleNames == Range(ModuleOrder)

\* cls.__name__ of the preview classes.
ClassNames == {"BasicPreview", "CustomPreview", "HTMLPreview"}

\* str(preview), as its rank among the strings in ascending order.  Preview
\* defines no __str__ (only __unicode__), so str() is what the subclass
\* defines, or else the default representation, which starts with the
\* qualified name of the subclass: a property of the class, and not tied to
\* its __name__ or to the module of its message view.
StrRanks == 1..2

\* Preview.form_class: None, or a form with one required field "subject"
\* whose get_message_view_kwargs hands that field to the message view.
FormClasses == {None, "SubjectForm"}

PreviewClasses ==
  [name : ClassNames, module : ModuleNames, str : StrRanks, form_class : FormClasses]

\* The classes registered while the registry is explored: those without a form.
PlainClasses == {cls \in PreviewClasses : cls.form_class = None}

\* request.GET: a query dictionary over these keys.
QueryOrder == <<"subject", "testRecipient">>

QueryValues ==
  [k \in Range(QueryOrder) |->
     IF k = "testRecipient" THEN {"", "qa@example.com", "dev@example.com"}
     ELSE {"", "Hello"}]

Queries ==
  UNION {{q \in [K -> UNION {QueryValues[k] : k \in K}] :
            \A k \in K : q[k] \in QueryValues[k]} : K \in SUBSET Range(QueryOrder)}

\* The alternatives a rendered message may carry: (content, mimetype) pairs.
AltParts ==
  {<<"<p>A</p>", "text/html">>, <<"<p>B</p>", "text/html">>, <<"A", "text/plain">>}

\* message.alternatives: attr is FALSE when the message (a plain EmailMessage)
\* has no such attribute.
Alternatives ==
  {[attr |-> FALSE, items |-> <<>>]}
    \cup [attr : {TRUE},
          items : {<<>>} \cup {<<a>> : a \in AltParts}
                    \cup {<<a, b>> : a \in AltParts, b \in AltParts}]

\* The recipients a message view may have put on its message.
Recipients ==
  {[to |-> <<>>, cc |-> <<>>, bcc |-> <<>>],
   [to |-> <<"user@example.com">>, cc |-> <<>>, bcc |-> <<>>],
   [to |-> <<"user@example.com">>, cc |-> <<"boss@example.com">>,
    bcc |-> <<"audit@example.com">>]}

\* What render_to_message may return.
Messages ==
  {[subject |-> "Subject", body |-> "plain body", to |-> r.to, cc |-> r.cc,
    bcc |-> r.bcc, alternatives |-> a] : r \in Recipients, a \in Alternatives}

SiteMessage ==
  [subject |-> "Subject", body |-> "plain body", to |-> <<"user@example.com">>,
   cc |-> <<"boss@example.com">>, bcc |-> <<"audit@example.com">>,
   alternatives |-> [attr |-> TRUE, items |-> <<<<"<p>A</p>", "text/html">>>>]]

\* How the message view behaves in one call of a view: which of its
\* operations raises, if any, and the message it renders (or would render).
Envs ==
  [fail : {"none", "send"}, message : Messages]
    \cup [fail : {"message_view", "render_to_message"}, message : {SiteMessage}]

\* The requests and message views used while the registry is explored.
SiteQueries == {EmptyDict, [subject |-> "Hello", testRecipient |-> "qa@example.com"]}

SiteEnvs == {[fail |-> "none", message |-> SiteMessage]}

\* The message views a served preview is tried with: detail_view reads the
\* alternatives and never sends; send_test_view reads and sets the recipients.
DetailEnvs ==
  {e \in Envs : e.fail # "send" /\ e.message.to = SiteMessage.to /\ e.message.cc = SiteMessage.cc}

SendEnvs ==
  {e \in Envs : e.message.alternatives = SiteMessage.alternatives}

\* The classes of the preview that is served.
ServedClasses == {cls \in PreviewClasses : cls.str = 1 /\ cls.module = ModuleOrder[1]}

\* An installed application: whether it has an "emails" submodule and what
\* importing it does, and the same for the "previews" submodule of "emails"
\* ("missing": no such submodule, so the import raises ImportError).
AppConfigs ==
  {[emails |-> "missing", previews |-> "missing"]}
    \cup [emails : {"ok", "ImportError"},
          previews : {"missing", "ok", "ImportError", "Exception"}]

InstalledApps == UNION {[1..n -> AppConfigs] : n \in 0..MaxApps}

\* ------------------------------------------------------------ PreviewSite

\* Insert without the comparison: the pairs stay in the order they came in.
InsertAtEnd(s, x) == Append(s, x)

\* Python's sorted(): a stable insertion of (key, value) pairs by key.
RECURSIVE Insert(_, _)
Insert(s, x) ==
  IF s = <<>> \/ s[Len(s)][1] <= x[1]
    THEN Append(s, x)
    ELSE Append(Insert(SubSeq(s, 1, Len(s) - 1), x), s[Len(s)])

RECURSIVE SortPairs(_)
SortPairs(s) ==
  IF s = <<>> THEN <<>>
  ELSE Insert(SortPairs(SubSeq(s, 1, Len(s) - 1)), s[Len(s)])

Undecorate(s) == [i \in DOMAIN s |-> s[i][2]]

ModuleRank(module) == CHOOSE i \in DOMAIN ModuleOrder : ModuleOrder[i] = module

\* sorted(self.__previews.keys())
SortedModules(keys) ==
  Undecorate(SortPairs([i \in DOMAIN keys |-> <<ModuleRank(keys[i]), keys[i]>>]))

\* str(preview)
Str(preview) == preview.cls.str

\* sorted(index.values(), key=str)
SortedByStr(values) ==
  Undecorate(SortPairs([i \in DOMAIN values |-> <<Str(values[i]), values[i]>>]))

\* The orders in which the registry's dicts may hand out their keys and values.
DictOrders(pv) ==
  {o \in [keys : Orders(DOMAIN pv),
          values : [DOMAIN pv -> UNION {Orders(Range(pv[m])) : m \in DOMAIN pv}]] :
     \A m \in DOMAIN pv : Range(o.values[m]) = Range(pv[m])}

\* PreviewSite.__iter__: the ModulePreviews tuples it yields, in order.
PreviewSite_iter(pv, o) ==
  LET modules == SortedModules(o.keys)
  IN  [i \in DOMAIN modules |->
         [module |-> modules[i], previews |-> SortedByStr(o.values[modules[i]])]]

\* self.__previews[module][preview] raises KeyError.
KeyError(pv, module, preview) ==
  module \notin DOMAIN pv \/ preview \notin DOMAIN pv[module]

\* cls(site=self): a new Preview instance.  Its identity is its class and its
\* serial, which numbers the instances built for one (module, name) key in
\* the order they are built, so no two instances ever built are equal.
NewPreview(pv, cls) ==
  [cls |-> cls,
   serial |-> IF KeyError(pv, cls.module, cls.name) THEN 1
              ELSE pv[cls.module][cls.name].serial + 1]

\* register with index.setdefault(cls.__name__, preview): a taken key keeps
\* its first instance.
RegisteredKeepFirst(pv, preview) ==
  LET index == SetDefault(pv, preview.cls.module, EmptyDict)
  IN  SetItem(pv, preview.cls.module,
              SetItem(index, preview.cls.name,
                      SetDefault(index, preview.cls.name, preview)))

\* PreviewSite.register's update of self.__previews.
Registered(pv, preview) ==
  LET index == SetDefault(pv, preview.cls.module, EmptyDict)
  IN  SetItem(pv, preview.cls.module, SetItem(index, preview.cls.name, preview))

PreviewSite_register(cls) ==
  /\ created < MaxRegs
  /\ created' = created + 1
  /\ previews' = Registered(previews, NewPreview(previews, cls))
  /\ request' = [op |-> "register", cls |-> cls]
  /\ response' = [kind |-> "return"]
  /\ calls' = <<>>
  /\ UNCHANGED <<apps, imported, discovery>>

PreviewSite_list_view ==
  /\ \E o \in DictOrders(previews) :
       response' = [kind |-> "render", template |-> list_template,
                    site |-> PreviewSite_iter(previews, o)]
  /\ request' = [op |-> "list_view"]
  /\ calls' = <<>>
  /\ UNCHANGED <<previews, created, apps, imported, discovery>>

\* ---------------------------------------------------------------- Preview

\* Preview.url: reverse('mailviews:detail', module=self.module, preview=type(self).__name__)
PreviewUrl(preview) ==
  [view |-> URL_NAMESPACE \o ":detail", module |-> preview.cls.module,
   preview |-> preview.cls.name]

\* QueryDict.urlencode(): the key=value pairs of the query string, in order.
RECURSIVE UrlEncodeFrom(_, _)
UrlEncodeFrom(q, i) ==
  IF i > Len(QueryOrder) THEN <<>>
  ELSE (IF QueryOrder[i] \in DOMAIN q
          THEN <<<<QueryOrder[i], q[QueryOrder[i]]>>>> ELSE <<>>)
       \o UrlEncodeFrom(q, i + 1)

UrlEncode(q) == UrlEncodeFrom(q, 1)

\* The copy of request.GET with testRecipient left in.
WithRecipient(GET) == GET

\* request.GET.copy() with del get_vars_copy['testRecipient'], KeyError passed over.
WithoutRecipient(GET) == DelItem(GET, "testRecipient")

\* '{0}?{1}'.format(self.url, get_vars_copy.urlencode())
DetailRedirectUrl(preview, GET) ==
  [path |-> PreviewUrl(preview), query |-> UrlEncode(WithoutRecipient(GET))]

\* form_class(data=request.GET) if request.GET else form_class()
BuildForm(GET) ==
  IF GET # EmptyDict THEN [is_bound |-> TRUE, data |-> GET]
  ELSE [is_bound |-> FALSE, data |-> EmptyDict]

\* form.is_valid() of the form with the required field "subject".
is_valid(form) ==
  form.is_bound /\ "subject" \in DOMAIN form.data /\ form.data["subject"] # ""

\* The test of the form without "or not form.is_valid()".
FormUnbound(form) == ~form.is_bound

\* The same slip in send_test_view.
SendFormUnbound(form) == ~form.is_bound

\* detail_view's test of the form: not form.is_bound or not form.is_valid()
DetailFormRejected(form) == ~form.is_bound \/ ~is_valid(form)

\* send_test_view's test of the form: not form.is_bound or not form.is_valid()
SendFormRejected(form) == ~form.is_bound \/ ~is_valid(form)

\* form.get_message_view_kwargs(): the form's subject for the message view.
get_message_view_kwargs(form) == [subject |-> Get(form.data, "subject")]

\* "test_recipient is None" in place of "not test_recipient".
RecipientIsNone(test_recipient) == test_recipient = None

\* not test_recipient
NoRecipient(test_recipient) == test_recipient = None \/ test_recipient = ""

\* get_message_view(request, **kwargs) then message_view.render_to_message():
\* the calls made, and the message unless one of them raised.
RenderMessage(kwargs, env) ==
  LET made == [call |-> "message_view", kwargs |-> kwargs]
      failed == [call |-> "render_to_message"]
      rendered == [call |-> "render_to_message", returned |-> env.message]
  IN  IF env.fail = "message_view"
        THEN [ok |-> FALSE, calls |-> <<made>>, raised |-> "message_view",
              message |-> env.message]
      ELSE IF env.fail = "render_to_message"
        THEN [ok |-> FALSE, calls |-> <<made, failed>>, raised |-> "render_to_message",
              message |-> env.message]
      ELSE [ok |-> TRUE, calls |-> <<made, rendered>>, raised |-> "",
            message |-> env.message]

\* getattr(message, 'alternatives', [])
AlternativesOf(message) ==
  IF message.alternatives.attr THEN message.alternatives.items ELSE <<>>

\* The first alternative whatever its content type.
FirstAlternative(alternatives) == IF alternatives = <<>> THEN 0 ELSE 1

\* next(alternative[0] for alternative in alternatives if alternative[1] == 'text/html'):
\* the index of that alternative, 0 on StopIteration.
FirstHtml(alternatives) ==
  IF \E i \in DOMAIN alternatives : alternatives[i][2] = "text/html"
    THEN CHOOSE i \in DOMAIN alternatives :
           /\ alternatives[i][2] = "text/html"
           /\ \A j \in 1..(i - 1) : alternatives[j][2] # "text/html"
    ELSE 0

\* b64encode(html.encode('utf-8'))
B64(html) == <<"base64", html>>

\* Preview.headers
headers == <<"Subject", "From", "To">>

\* decode_header(raw[header])[0]: the first part of the raw header as a
\* (value, encoding) pair; the headers here are plain ASCII, with no encoding.
decode_header(message, header) ==
  [value |-> CASE header = "Subject" -> message.subject
               [] header = "From" -> "webmaster@localhost"
               [] OTHER -> message.to,
   encoding |-> None]

\* maybe_decode_header: value.decode(encoding) if there is an encoding.
maybe_decode_header(message, header) ==
  LET part == decode_header(message, header)
  IN  IF part.encoding # None THEN <<part.value, "decoded from", part.encoding>>
      ELSE part.value

Raised(exc, by) == [kind |-> "raise", exc |-> exc, by |-> by]

\* The context detail_view adds for a rendered message.
MessageContext(context, message) ==
  LET shown == [k \in (DOMAIN context) \cup {"message", "subject", "body", "headers", "raw"} |->
                  CASE k = "message" -> message
                    [] k = "subject" -> message.subject
                    [] k = "body" -> message.body
                    [] k = "headers" ->
                         [i \in DOMAIN headers |->
                            <<headers[i], maybe_decode_header(message, headers[i])>>]
                    [] k = "raw" -> <<"raw", message.subject, message.to, message.body>>
                    [] OTHER -> context[k]]
      alternatives == AlternativesOf(message)
      i == FirstHtml(alternatives)
  IN  IF i = 0 THEN shown
      ELSE SetItem(SetItem(shown, "html", alternatives[i][1]),
                   "escaped_html", B64(alternatives[i][1]))

\* Preview.detail_view(request): its response and the calls it makes.
Preview_detail_view(preview, GET, env) ==
  LET context == [k \in {"preview"} |-> preview]
      form == BuildForm(GET)
      has_form == preview.cls.form_class # None
      with_form == IF has_form THEN SetItem(context, "form", form) ELSE context
      kwargs == IF has_form THEN get_message_view_kwargs(form) ELSE EmptyDict
      built == RenderMessage(kwargs, env)
  IN  IF has_form /\ DetailFormRejected(form)
        THEN [response |-> [kind |-> "render", template |-> "mailviews/previews/detail.html",
                            context |-> with_form],
              calls |-> <<>>]
      ELSE IF ~built.ok
        THEN [response |-> Raised("Exception", built.raised), calls |-> built.calls]
      ELSE [response |-> [kind |-> "render", template |-> template_name,
                          context |-> MessageContext(with_form, built.message)],
            calls |-> built.calls]

\* send_test_email without "email_message.bcc = []".
send_test_email_keeps_bcc(email_message, recipient) ==
  [email_message EXCEPT !.cc = <<>>, !.to = <<recipient>>]

\* Preview.send_test_email: the message as it is when send() is called.
send_test_email(email_message, recipient) ==
  [email_message EXCEPT !.cc = <<>>, !.bcc = <<>>, !.to = <<recipient>>]

\* Preview.send_test_view(request): its response and the calls it makes.
Preview_send_test_view(preview, GET, env) ==
  LET test_recipient == Get(GET, "testRecipient")
      detail_view_redirect_url == DetailRedirectUrl(preview, GET)
      redirect == [kind |-> "redirect", url |-> detail_view_redirect_url]
      form == BuildForm(GET)
      has_form == preview.cls.form_class # None
      kwargs == IF has_form THEN get_message_view_kwargs(form) ELSE EmptyDict
      built == RenderMessage(kwargs, env)
      sent == [call |-> "send", message |-> send_test_email(built.message, test_recipient)]
  IN  IF NoRecipient(test_recipient)
        THEN [response |-> redirect, calls |-> <<>>]
      ELSE IF has_form /\ SendFormRejected(form)
        THEN [response |-> redirect, calls |-> <<>>]
      ELSE IF ~built.ok
        THEN [response |-> Raised("Exception", built.raised), calls |-> built.calls]
      ELSE IF env.fail = "send"
        THEN [response |-> Raised("Exception", "send"), calls |-> Append(built.calls, sent)]
      ELSE [response |-> redirect, calls |-> Append(built.calls, sent)]

\* ------------------------------------------------------ PreviewSite's views

\* A lookup that catches the KeyError of the module only: an unknown name
\* under a known module falls to some preview of that module.
DispatchByModule(pv, module, preview, GET, env, detail) ==
  IF module \notin DOMAIN pv
    THEN [response |-> Raised("Http404", "PreviewSite"), calls |-> <<>>]
  ELSE LET found == IF preview \in DOMAIN pv[module] THEN pv[module][preview]
                    ELSE CHOOSE p \in Range(pv[module]) : TRUE
           r == IF detail THEN Preview_detail_view(found, GET, env)
                ELSE Preview_send_test_view(found, GET, env)
       IN  [response |-> r.response,
            calls |-> <<[call |-> IF detail THEN "Preview.detail_view"
                                  ELSE "Preview.send_test_view",
                         preview |-> found]>> \o r.calls]

\* The view's outcome: Http404 on a KeyError of the lookup, else what the
\* preview's own view (detail = TRUE: detail_view, else send_test_view) gives.
Dispatch(pv, module, preview, GET, env, detail) ==
  IF KeyError(pv, module, preview)
    THEN [response |-> Raised("Http404", "PreviewSite"), calls |-> <<>>]
  ELSE LET found == pv[module][preview]
           r == IF detail THEN Preview_detail_view(found, GET, env)
                ELSE Preview_send_test_view(found, GET, env)
       IN  [response |-> r.response,
            calls |-> <<[call |-> IF detail THEN "Preview.detail_view"
                                  ELSE "Preview.send_test_view",
                         preview |-> found]>> \o r.calls]

\* The message views to try: none matter when the lookup fails.
EnvsFor(pv, module, preview, envs) ==
  IF KeyError(pv, module, preview) THEN {CHOOSE e \in envs : TRUE} ELSE envs

PreviewSite_detail_view(module, preview, GET, envs) ==
  /\ \E env \in EnvsFor(previews, module, preview, envs) :
       LET r == Dispatch(previews, module, preview, GET, env, TRUE)
       IN  response' = r.response /\ calls' = r.calls
  /\ request' = [op |-> "detail_view", module |-> module, preview |-> preview, GET |-> GET]
  /\ UNCHANGED <<previews, created, apps, imported, discovery>>

PreviewSite_send_test_view(module, preview, GET, envs) ==
  /\ \E env \in EnvsFor(previews, module, preview, envs) :
       LET r == Dispatch(previews, module, preview, GET, env, FALSE)
       IN  response' = r.response /\ calls' = r.calls
  /\ request' = [op |-> "send_test_view", module |-> module, preview |-> preview, GET |-> GET]
  /\ UNCHANGED <<previews, created, apps, imported, discovery>>

\* -------------------------------------------------------------- autodiscover

\* module_has_submodule(package, name) for name "emails" or "previews".
module_has_submodule(app_config, name) ==
  IF name = "emails" THEN app_config.emails # "missing"
  ELSE app_config.previews # "missing"

\* What import_module raises for the submodule, "" when it imports.
ImportRaises(app_config, name) ==
  LET how == IF name = "emails" THEN app_config.emails ELSE app_config.previews
  IN  IF how = "ok" THEN "" ELSE IF how = "missing" THEN "ImportError" ELSE how

\* The loop body with "except ImportError: pass".
DiscoverAppSwallowing(app_config, i) ==
  IF ~module_has_submodule(app_config, "emails")
    THEN [imports |-> <<>>, exc |-> ""]
  ELSE IF ImportRaises(app_config, "emails") # ""
    THEN [imports |-> <<<<i, "emails">>>>, exc |-> ImportRaises(app_config, "emails")]
  ELSE LET raised == ImportRaises(app_config, "previews")
       IN  [imports |-> <<<<i, "emails">>, <<i, "emails.previews">>>>,
            exc |-> IF raised = "ImportError" THEN "" ELSE raised]

\* The body of autodiscover's loop for application i: the imports it tries
\* and the exception that leaves it, "" when the loop goes on.
DiscoverApp(app_config, i) ==
  IF ~module_has_submodule(app_config, "emails")
    THEN [imports |-> <<>>, exc |-> ""]
  ELSE IF ImportRaises(app_config, "emails") # ""
    THEN [imports |-> <<<<i, "emails">>>>, exc |-> ImportRaises(app_config, "emails")]
  ELSE LET raised == ImportRaises(app_config, "previews")
           caught == raised = "ImportError"
       IN  [imports |-> <<<<i, "emails">>, <<i, "emails.previews">>>>,
            exc |-> IF caught /\ ~module_has_submodule(app_config, "previews")
                      THEN "" ELSE raised]

\* autodiscover() from application i on.
RECURSIVE DiscoverFrom(_, _)
DiscoverFrom(configs, i) ==
  IF i > Len(configs) THEN [imports |-> <<>>, exc |-> "", app |-> 0]
  ELSE LET this == DiscoverApp(configs[i], i)
           rest == DiscoverFrom(configs, i + 1)
       IN  IF this.exc # "" THEN [imports |-> this.imports, exc |-> this.exc, app |-> i]
           ELSE [imports |-> this.imports \o rest.imports, exc |-> rest.exc, app |-> rest.app]

autodiscover ==
  /\ LET r == DiscoverFrom(apps, 1)
     IN  /\ imported' = r.imports
         /\ discovery' = IF r.exc = "" THEN [kind |-> "return"]
                         ELSE [kind |-> "raise", exc |-> r.exc, app |-> r.app]
  /\ UNCHANGED <<previews, created, request, response, calls, apps>>

Init ==
  /\ previews = EmptyDict
  /\ created = 0
  /\ request = [op |-> "none"]
  /\ response = [kind |-> "none"]
  /\ calls = <<>>
  /\ apps = <<>>
  /\ imported = <<>>
  /\ discovery = [kind |-> "none"]

Next ==
  \/ \E cls \in PlainClasses : PreviewSite_register(cls)
  \/ PreviewSite_list_view
  \/ \E module \in ModuleNames, preview \in ClassNames, GET \in SiteQueries :
       PreviewSite_detail_view(module, preview, GET, SiteEnvs)
  \/ \E module \in ModuleNames, preview \in ClassNames, GET \in SiteQueries :
       PreviewSite_send_test_view(module, preview, GET, SiteEnvs)

Spec == Init /\ [][Next]_vars

\* A site after the registration of one preview, serving requests: the views
\* with every query and every behaviour of the message view.
InitServed ==
  /\ \E cls \in ServedClasses : previews = Registered(EmptyDict, NewPreview(EmptyDict, cls))
  /\ created = 1
  /\ request = [op |-> "none"]
  /\ response = [kind |-> "none"]
  /\ calls = <<>>
  /\ apps = <<>>
  /\ imported = <<>>
  /\ discovery = [kind |-> "none"]

NextServed ==
  \/ PreviewSite_list_view
  \/ \E module \in ModuleNames, preview \in ClassNames, GET \in Queries :
       PreviewSite_detail_view(module, preview, GET, DetailEnvs)
  \/ \E module \in ModuleNames, preview \in ClassNames, GET \in Queries :
       PreviewSite_send_test_view(module, preview, GET, SendEnvs)

ServedSpec == InitServed /\ [][NextServed]_vars

\* autodiscover over every list of installed applications.
InitDiscover ==
  /\ previews = EmptyDict
  /\ created = 0
  /\ request = [op |-> "none"]
  /\ response = [kind |-> "none"]
  /\ calls = <<>>
  /\ apps \in InstalledApps
  /\ imported = <<>>
  /\ discovery = [kind |-> "none"]

NextDiscover == autodiscover

DiscoverSpec == InitDiscover /\ [][NextDiscover]_vars

\* ================================================================ properties

\* Every Preview instance in the registry.
Entries(pv) == UNION {Range(pv[m]) : m \in DOMAIN pv}

\* The registered instances whose class has this message-view module and name.
RegisteredAs(pv, module, name) ==
  {p \in Entries(pv) : p.cls.module = module /\ p.cls.name = name}

IsView == request.op \in {"detail_view", "send_test_view"}

\* The calls of the last view other than the site's call of the Preview's view.
CallsNamed(name) == {i \in DOMAIN calls : calls[i].call = name}

PreviewCalls == CallsNamed("Preview.detail_view") \cup CallsNamed("Preview.send_test_view")

\* C1: a view of the site called with a (module, preview) pair that is not
\* registered raises Http404 and calls no method of any Preview; called with
\* a registered pair it calls that Preview's view of the same name, once and
\* first, and returns what that view returns.
C1_LookupOrNotFound ==
  IsView =>
    LET hits == RegisteredAs(previews, request.module, request.preview)
    IN  IF hits = {}
          THEN response = [kind |-> "raise", exc |-> "Http404", by |-> "PreviewSite"]
               /\ calls = <<>>
          ELSE /\ PreviewCalls = {1}
               /\ calls[1].call = "Preview." \o request.op
               /\ hits = {calls[1].preview}
               /\ ~(response.kind = "raise" /\ response.exc = "Http404")
               /\ \E env \in SiteEnvs :
                    response =
                      (IF request.op = "detail_view"
                         THEN Preview_detail_view(calls[1].preview, request.GET, env)
                         ELSE Preview_send_test_view(calls[1].preview, request.GET, env)).response

\* C1's case: the module has registered previews, the name is not among them.
C1_Witness ==
  /\ request.op = "send_test_view"
  /\ request.module \in DOMAIN previews
  /\ request.preview \notin DOMAIN previews[request.module]
  /\ response.kind = "raise"
  /\ response.exc = "Http404"

\* What a register call does to the registry, for C2.
C2_Step ==
  request'.op = "register" =>
    LET cls == request'.cls
        old == RegisteredAs(previews, cls.module, cls.name)
        new == RegisteredAs(previews', cls.module, cls.name)
    IN  /\ Cardinality(new) = 1
        /\ \A p \in new : p.cls = cls /\ p \notin Entries(previews)
        /\ previews'[cls.module][cls.name] \in new
        /\ \A p \in old :
             /\ p \notin Entries(previews')
             /\ \A o \in DictOrders(previews') :
                  \A i \in DOMAIN PreviewSite_iter(previews', o) :
                    p \notin Range(PreviewSite_iter(previews', o)[i].previews)
        /\ Entries(previews') \ new = Entries(previews) \ old
        /\ \A m \in DOMAIN previews : \A n \in DOMAIN previews[m] :
             <<m, n>> # <<cls.module, cls.name>> =>
               m \in DOMAIN previews' /\ n \in DOMAIN previews'[m]
               /\ previews'[m][n] = previews[m][n]
        /\ \A m \in DOMAIN previews' : \A n \in DOMAIN previews'[m] :
             previews'[m][n].cls.module = m /\ previews'[m][n].cls.name = n

\* C2: the registry holds at most one Preview per (message-view module, class
\* name) key; registering a class whose key is taken puts the new instance
\* under the key, leaves the old one reachable neither by lookup nor by
\* iteration, and leaves the entries of every other key as they were.
C2_RegisterReplaces == [][C2_Step]_vars

\* C2's case: three registrations, the third under the key of the second.
C2_Witness ==
  /\ created = 3
  /\ request.op = "register"
  /\ Cardinality(Entries(previews)) = 2
  /\ previews[request.cls.module][request.cls.name].serial = 2
  /\ \E p \in Entries(previews) : p.serial = 1

Ascending(s) == \A i, j \in DOMAIN s : i < j => s[i] < s[j]

NonDescending(s) == \A i, j \in DOMAIN s : i < j => s[i] <= s[j]

\* C6: iterating the site yields one tuple per module with registered
\* previews, in ascending order of module; each tuple lists exactly the
\* previews registered under its module, each once, in non-descending order
\* of str(); so every registered preview is in exactly one tuple.
C6_IterGroupsSorted ==
  request.op = "list_view" =>
    LET site == response.site
    IN  /\ {site[i].module : i \in DOMAIN site} = DOMAIN previews
        /\ Len(site) = Cardinality(DOMAIN previews)
        /\ Ascending([i \in DOMAIN site |-> ModuleRank(site[i].module)])
        /\ \A i \in DOMAIN site :
             LET listed == site[i].previews
             IN  /\ Range(listed) = {p \in Entries(previews) : p.cls.module = site[i].module}
                 /\ Len(listed) = Cardinality(Range(listed))
                 /\ NonDescending([k \in DOMAIN listed |-> listed[k].cls.str])
        /\ \A p \in Entries(previews) :
             Cardinality({i \in DOMAIN site : p \in Range(site[i].previews)}) = 1

\* C6's case: two modules listed, one of them with previews of different str().
C6_Witness ==
  /\ request.op = "list_view"
  /\ Len(response.site) = 2
  /\ \E i \in DOMAIN response.site :
       /\ Len(response.site[i].previews) = 2
       /\ response.site[i].previews[1].cls.str < response.site[i].previews[2].cls.str
       /\ response.site[i].previews[1].cls.name = "HTMLPreview"

\* ------------------------------------------------- the views of a Preview

\* The last call was this view of the site and found a registered preview.
Served(op) ==
  request.op = op /\ RegisteredAs(previews, request.module, request.preview) # {}

\* The preview the last view found.
Found == CHOOSE p \in RegisteredAs(previews, request.module, request.preview) : TRUE

HasRecipient ==
  "testRecipient" \in DOMAIN request.GET /\ request.GET["testRecipient"] # ""

\* The form built from the request's query is bound and valid: the query is
\* not empty and has a subject that is not empty.
FormAccepts ==
  "subject" \in DOMAIN request.GET /\ request.GET["subject"] # ""

FormOk == Found.cls.form_class = None \/ FormAccepts

\* The query's parameters other than testRecipient, as (key, value) pairs.
OtherParameters ==
  {<<k, request.GET[k]>> : k \in (DOMAIN request.GET) \ {"testRecipient"}}

\* The response redirects to the detail URL of the preview found, with
\* exactly the parameters of the query other than testRecipient.
RedirectsToDetail ==
  /\ response.kind = "redirect"
  /\ response.url.path =
       [view |-> "mailviews:detail", module |-> request.module,
        preview |-> request.preview]
  /\ Range(response.url.query) = OtherParameters
  /\ Len(response.url.query) = Cardinality(OtherParameters)

\* render_to_message returned a message.
Rendered ==
  \E i \in CallsNamed("render_to_message") : "returned" \in DOMAIN calls[i]

\* The message view was instantiated or rendered, and no message came of it.
ConstructionFailed ==
  CallsNamed("message_view") # {} /\ ~Rendered

\* C3: send_test_view on a query without testRecipient, or with an empty
\* one, neither instantiates the message view nor sends, and redirects to the
\* preview's detail URL with the query's other parameters unchanged.
C3_NoRecipientRedirects ==
  (Served("send_test_view") /\ ~HasRecipient) =>
    /\ CallsNamed("send") = {}
    /\ CallsNamed("message_view") = {}
    /\ CallsNamed("render_to_message") = {}
    /\ RedirectsToDetail

\* C3's case: an empty testRecipient beside another parameter.
C3_Witness ==
  /\ Served("send_test_view")
  /\ request.GET = [subject |-> "Hello", testRecipient |-> ""]
  /\ response.kind = "redirect"

\* C4: send_test_view with a recipient, a form that is valid if one is
\* configured, and a message view that renders a message sends that message
\* exactly once, as the last call, with to = [testRecipient] and cc and bcc
\* empty; it redirects to the detail URL only if send returned, and raises
\* what send raises otherwise.
C4_SendsOnceToRecipient ==
  (Served("send_test_view") /\ HasRecipient /\ FormOk /\ Rendered) =>
    /\ CallsNamed("send") = {Len(calls)}
    /\ CallsNamed("render_to_message") = {Len(calls) - 1}
    /\ calls[Len(calls)].message.to = <<request.GET["testRecipient"]>>
    /\ calls[Len(calls)].message.cc = <<>>
    /\ calls[Len(calls)].message.bcc = <<>>
    /\ calls[Len(calls)].message.body = calls[Len(calls) - 1].returned.body
    /\ response.kind \in {"redirect", "raise"}
    /\ response.kind = "redirect" => RedirectsToDetail
    /\ response.kind = "raise" => response.by = "send"

\* C4's case: the message view had put other recipients on the message.
C4_Witness ==
  /\ Served("send_test_view")
  /\ response.kind = "redirect"
  /\ CallsNamed("send") # {}
  /\ \E i \in CallsNamed("render_to_message") :
       /\ calls[i].returned.to = <<"user@example.com">>
       /\ calls[i].returned.cc # <<>>
       /\ calls[i].returned.bcc # <<>>
  /\ request.GET["testRecipient"] = "dev@example.com"

\* C5 as stated: with a recipient, a failure of the form or of the message's
\* construction ends in a redirect to the detail view.
C5_FailureRedirects ==
  (Served("send_test_view") /\ HasRecipient /\ (~FormOk \/ ConstructionFailed)) =>
    response.kind = "redirect"

\* C5, amended: with a recipient, a form that is unbound or invalid ends in
\* a redirect to the detail view with no message view instantiated and
\* nothing sent; an error raised by the message view or by its
\* render_to_message is not caught: the view raises it, and nothing is sent.
C5_FormRedirectsConstructionRaises ==
  (Served("send_test_view") /\ HasRecipient) =>
    /\ ~FormOk => (RedirectsToDetail /\ CallsNamed("message_view") = {}
                   /\ CallsNamed("send") = {})
    /\ ConstructionFailed =>
         (response.kind = "raise" /\ response.exc = "Exception"
          /\ response.by \in {"message_view", "render_to_message"}
          /\ CallsNamed("send") = {})
    /\ (FormOk /\ ~ConstructionFailed) => Rendered

\* C5's case: a recipient and a form without its subject.
C5_Witness ==
  /\ Served("send_test_view")
  /\ Found.cls.form_class # None
  /\ request.GET = [testRecipient |-> "qa@example.com"]
  /\ response.kind = "redirect"
  /\ calls = <<[call |-> "Preview.send_test_view", preview |-> Found]>>

\* The first text/html alternative of a message, as a set: empty or one content.
FirstHtmlContent(message) ==
  LET items == IF message.alternatives.attr THEN message.alternatives.items ELSE <<>>
      html == {i \in DOMAIN items : items[i][2] = "text/html"}
  IN  {items[i][1] : i \in {k \in html : \A j \in html : k <= j}}

\* C7: when detail_view has a rendered message it returns the detail page;
\* the context has body, the message's plain body; it has html if and only
\* if some alternative is of type text/html, and html is then the content of
\* the first of these; a message with no alternatives attribute or with no
\* text/html alternative is rendered without html.
C7_HtmlIsFirstHtmlAlternative ==
  (Served("detail_view") /\ Rendered) =>
    LET message == calls[Len(calls)].returned
        context == response.context
    IN  /\ response.kind = "render"
        /\ context["message"] = message
        /\ "body" \in DOMAIN context
        /\ context["body"] = message.body
        /\ "html" \in DOMAIN context <=> FirstHtmlContent(message) # {}
        /\ "html" \in DOMAIN context => FirstHtmlContent(message) = {context["html"]}
        /\ "escaped_html" \in DOMAIN context <=> "html" \in DOMAIN context

\* C7's case: a text/plain alternative comes before the text/html one.
C7_Witness ==
  /\ Served("detail_view")
  /\ response.kind = "render"
  /\ "html" \in DOMAIN response.context
  /\ response.context["html"] = "<p>B</p>"
  /\ response.context["message"].alternatives.items[1][2] = "text/plain"

\* C8: detail_view of a preview with a form class returns the bare detail
\* page, its context holding the preview and the form only, without
\* instantiating or rendering the message view, when the query is empty or
\* the form invalid; otherwise it instantiates the message view with the
\* form's get_message_view_kwargs; without a form class it always
\* instantiates it, with no keyword arguments.
C8_FormGatesMessageView ==
  Served("detail_view") =>
    IF Found.cls.form_class # None /\ ~FormAccepts
      THEN /\ response.kind = "render"
           /\ response.template = "mailviews/previews/detail.html"
           /\ DOMAIN response.context = {"preview", "form"}
           /\ response.context["preview"] = Found
           /\ response.context["form"].is_bound = (request.GET # EmptyDict)
           /\ CallsNamed("message_view") = {}
           /\ CallsNamed("render_to_message") = {}
      ELSE /\ CallsNamed("message_view") = {2}
           /\ calls[2].kwargs =
                (IF Found.cls.form_class # None
                   THEN [subject |-> request.GET["subject"]] ELSE EmptyDict)

\* C8's case: a bound form that is invalid.
C8_Witness ==
  /\ Served("detail_view")
  /\ Found.cls.form_class # None
  /\ request.GET = [subject |-> ""]
  /\ response.kind = "render"
  /\ "message" \notin DOMAIN response.context

\* C10: a message is sent only by send_test_view, for a registered preview,
\* a recipient that is not empty and a form that is valid if one is
\* configured; list_view and detail_view send nothing, and send_test_view
\* with a rejected form redirects to the detail view and sends nothing.
C10_SendOnlyOnValidSendTest ==
  /\ CallsNamed("send") # {} =>
       (Served("send_test_view") /\ HasRecipient /\ FormOk)
  /\ (Served("send_test_view") /\ ~FormOk) =>
       (response.kind = "redirect" /\ CallsNamed("send") = {})

\* C10's case: a preview with a form sends for a valid query.
C10_Witness ==
  /\ Served("send_test_view")
  /\ Found.cls.form_class # None
  /\ CallsNamed("send") # {}
  /\ response.kind = "redirect"

\* ------------------------------------------------------------ autodiscover

\* autodiscover tried to import this submodule of application i.
Tried(i, name) == <<i, name>> \in Range(imported)

\* autodiscover went on after application i.
WentOn(i) == discovery.kind = "return" \/ discovery.app > i

\* C9: an application without an emails submodule has nothing imported; a
\* failed import of emails.previews is passed over, and discovery goes on,
\* if and only if it raised ImportError and there is no previews submodule;
\* if the submodule exists, what its import raises leaves autodiscover.
C9_SwallowsOnlyMissingPreviews ==
  discovery.kind # "none" =>
    \A i \in DOMAIN apps :
      /\ apps[i].emails = "missing" => ~Tried(i, "emails") /\ ~Tried(i, "emails.previews")
      /\ (Tried(i, "emails.previews") /\ apps[i].previews # "ok") =>
           /\ WentOn(i) <=> apps[i].previews = "missing"
           /\ apps[i].previews # "missing" =>
                discovery = [kind |-> "raise", exc |-> apps[i].previews, app |-> i]
      /\ (WentOn(i) /\ i < Len(apps) /\ apps[i + 1].emails # "missing") =>
           Tried(i + 1, "emails")

\* C9's case: an emails package without previews, and discovery goes on to
\* the next application, whose previews raise ImportError.
C9_Witness ==
  /\ Len(apps) >= 2
  /\ apps[1] = [emails |-> "ok", previews |-> "missing"]
  /\ apps[2] = [emails |-> "ok", previews |-> "ImportError"]
  /\ discovery = [kind |-> "raise", exc |-> "ImportError", app |-> 2]
  /\ Tried(1, "emails.previews")

====
